---- MODULE Spec2Model ----
(***************************************************************************)
(* Model of the file ingestion and versioning engine of EmberFrame:        *)
(* app/services/file_service.py (EnhancedFileService) over the File and    *)
(* User tables of app/models/user.py and the upload directory on disk.     *)
(*                                                                         *)
(* The application is deployed as several gunicorn worker processes        *)
(* (setup.py: "gunicorn main:app -w 4"), each request with its own         *)
(* SQLAlchemy session.  A worker of the model is one request in flight:    *)
(* it holds what the session has loaded (the identity map) and the local   *)
(* variables of the handler, and its steps interleave with those of the    *)
(* other workers at the points where the handler touches the disk or the   *)
(* database.                                                               *)
(***************************************************************************)
EXTENDS Integers, Sequences, FiniteSets, TLC

VARIABLES
    conf,    \* the deployment and the inputs requests are drawn from (fixed by Init)
    disk,    \* the upload directory: physical path -> bytes of the file there
    files,   \* the files table: files[i] is the row with id i
    users,   \* the users table: user id -> [storage_used, storage_quota]
    w,       \* per worker: the request in flight (handler locals and session)
    ret,     \* per worker: what the last finished request returned or raised
    clock    \* logical time: the work taken on so far (also datetime.utcnow())

vars == <<conf, disk, files, users, w, ret, clock>>

----------------------------------------------------------------------------
(* Bounds of the model *)

\* most work taken on in one behaviour: one unit for each uploaded item and
\* for each other request
MaxOps == 4
\* most items in one upload batch
MaxBatch == 2
\* most characters in the path an upload names
MaxPath == 4
\* most characters in the name of an archive entry
MaxMember == 3

----------------------------------------------------------------------------
(* Names, paths and bytes *)

\* A file name "<base>[_<t1>_<t2>...][.<ext>]": sfx lists the "_<t>" parts that
\* the renaming code appends before the extension (token 0 stands for "_copy",
\* a token k >= 1 for "_k"); ext = "" is a name without extension.
Name(base, sfx, ext) == [base |-> base, sfx |-> sfx, ext |-> ext]

\* A resolved location <upload_dir>/<owner>/<".." up times>/<sub...>/<name>:
\* sub lists the directory components below the owner's directory, each a
\* sequence of characters; up > 0 is a location above the owner's directory.
\* A location with the empty name is the directory (or archive entry) that the
\* last component of sub names.
Path(uid, name) == [owner |-> uid, up |-> 0, sub |-> <<>>, name |-> name]

NoName == Name("", <<>>, "")

NoPath == [owner |-> "none", up |-> 0, sub |-> <<>>, name |-> NoName]

\* target_dir / name
PathIn(dir, name) == [dir EXCEPT !.name = name]

\* Path.parent of a file
Parent(p) == [p EXCEPT !.name = NoName]

\* Bytes: data names the content, trunc marks a partially written copy of it,
\* members are the entries of a zip archive (empty for other files).
Bytes(data) == [data |-> data, trunc |-> FALSE, members |-> {}]

Truncated(c) == [c EXCEPT !.trunc = TRUE]

MB == 1024 * 1024

RawSize(data) ==
    CASE data = "c1" -> 600
      [] data = "c2" -> 600
      [] data = "c3" -> 200
      [] data = "c4" -> 10 * MB + 1
      [] data = "c5" -> 100 * MB + 1
      [] OTHER -> 0

RECURSIVE SumSizes(_)
SumSizes(S) ==
    IF S = {} THEN 0
    ELSE LET m == CHOOSE x \in S : TRUE
         IN m.size + SumSizes(S \ {m})

\* st_size of a file holding bytes c (a zip is taken as stored, not deflated)
Size(c) ==
    IF c.trunc THEN RawSize(c.data) \div 2
    ELSE IF c.data = "zip" THEN SumSizes(c.members)
    ELSE RawSize(c.data)

Exists(d, p) == p \in DOMAIN d

WriteFile(d, p, c) == [q \in (DOMAIN d) \cup {p} |-> IF q = p THEN c ELSE d[q]]

Unlink(d, p) == [q \in (DOMAIN d) \ {p} |-> d[q]]

\* os.rename(src, dst): dst is replaced in one step; src = dst is a no-op
MoveFile(d, src, dst) ==
    IF src = dst THEN d ELSE Unlink(WriteFile(d, dst, d[src]), src)

\* SHA-256 of the bytes, taken as collision free
_calculate_file_hash(c) == <<"sha256", c>>

\* Path.with_suffix('.tmp')
TempPathOf(p) == [p EXCEPT !.name.ext = "tmp"]

\* "<stem>_<k>.<ext>" built from name n
Suffixed(n, k) == [n EXCEPT !.sfx = Append(n.sfx, k)]

\* lines 322-334: the path an item is written to
PickFilePath(d, target_dir, n, overwrite) ==
    LET p0 == PathIn(target_dir, n)
        free(k) == ~Exists(d, PathIn(target_dir, Suffixed(n, k)))
        top == Cardinality(DOMAIN d) + 1
        k0 == CHOOSE k \in 1..top : free(k) /\ \A j \in 1..(k - 1) : ~free(j)
    IN IF Exists(d, p0) /\ ~overwrite THEN PathIn(target_dir, Suffixed(n, k0)) ELSE p0

\* the except branch without the removal of the temp file
CleanUpKeepsTemp(d, temp_path, file_path) ==
    IF Exists(d, file_path) THEN Unlink(d, file_path) ELSE d

\* lines 426-430: the except branch of _process_single_file
CleanUp(d, temp_path, file_path) ==
    LET d1 == IF Exists(d, temp_path) THEN Unlink(d, temp_path) ELSE d
    IN IF Exists(d1, file_path) THEN Unlink(d1, file_path) ELSE d1

----------------------------------------------------------------------------
(* Paths given by the caller, directories *)

\* A path as the caller gives it is a sequence of characters.
\* Python's "pat in s" on strings
Contains(s, pat) ==
    \E i \in 0..(Len(s) - Len(pat)) : \A j \in 1..Len(pat) : s[i + j] = pat[j]

\* validators.py line 66
dangerous_patterns ==
    {<<".", ".", "/">>, <<".", ".", "\\">>, <<"/", ".", ".">>, <<"\\", ".", ".">>}

\* a check that looks for "/.." only
validate_path_slash_only(path) ==
    path = <<>> \/ ~Contains(path, <<"/", ".", ".">>)

\* validators.py lines 60-67
validate_path(path) ==
    path = <<>> \/ ~\E pat \in dangerous_patterns : Contains(path, pat)

\* str.lstrip(c)
RECURSIVE LStrip(_, _)
LStrip(s, c) == IF s # <<>> /\ Head(s) = c THEN LStrip(Tail(s), c) ELSE s

\* str.split(sep)
RECURSIVE Split(_, _)
Split(s, sep) ==
    IF \A i \in 1..Len(s) : s[i] # sep THEN <<s>>
    ELSE LET i == CHOOSE k \in 1..Len(s) : s[k] = sep /\ \A j \in 1..(k - 1) : s[j] # sep
         IN <<SubSeq(s, 1, i - 1)>> \o Split(SubSeq(s, i + 1, Len(s)), sep)

IsPlainPart(c) == c # <<>> /\ c # <<".">>

\* the parts pathlib keeps of a relative path: empty parts and "." are dropped
PathParts(s) == SelectSeq(Split(s, "/"), IsPlainPart)

ParentPart == <<".", ".">>

\* the location the operating system reaches from dir along the parts
RECURSIVE Walk(_, _)
Walk(dir, parts) ==
    IF parts = <<>> THEN dir
    ELSE LET c == Head(parts)
             next == IF c # ParentPart THEN [dir EXCEPT !.sub = Append(@, c)]
                     ELSE IF dir.sub = <<>> THEN [dir EXCEPT !.up = @ + 1]
                     ELSE [dir EXCEPT !.sub = SubSeq(@, 1, Len(@) - 1)]
         IN Walk(next, Tail(parts))

\* file_service.py lines 84-88
_get_user_dir(uid) == Path(uid, NoName)

\* line 225: user_dir / path.lstrip('/') if path else user_dir
TargetDir(uid, path) == Walk(_get_user_dir(uid), PathParts(LStrip(path, "/")))

\* lines 229-232: target_dir.resolve().relative_to(user_dir.resolve()) succeeds
InsideUserDir(dir, uid) == dir.owner = uid /\ dir.up = 0

DirEntry == [data |-> "dir", trunc |-> FALSE, members |-> {}]

IsDir(d, p) == Exists(d, p) /\ d[p].data = "dir"

\* the directory and the directories above it, up to the owner's directory (or,
\* for a location outside it, up to the directory reached by the ".." steps);
\* those directories themselves exist from the start
Ancestors(dir) == {[dir EXCEPT !.sub = SubSeq(@, 1, k)] : k \in 1..Len(dir.sub)}

\* mkdir raises FileExistsError: a file is in the way
MkdirFails(d, dir) == \E q \in Ancestors(dir) : Exists(d, q) /\ ~IsDir(d, q)

\* line 226: target_dir.mkdir(parents=True, exist_ok=True)
MkdirParents(d, dir) ==
    [q \in (DOMAIN d) \cup Ancestors(dir) |-> IF q \in DOMAIN d THEN d[q] ELSE DirEntry]

----------------------------------------------------------------------------
(* The files table *)

NoFile == 0

\* a File row; session is the worker whose transaction holds the uncommitted
\* row, 0 once committed
FileRow(id, path, size, checksum, version, parent, uid, sess) ==
    [id |-> id, name |-> path.name, physical_path |-> path, size |-> size,
     checksum |-> checksum, version |-> version, parent_file_id |-> parent,
     owner_id |-> uid, is_deleted |-> FALSE, updated_at |-> 0, session |-> sess]

Ids == 1..Len(files)

\* rows a query of worker p sees: committed ones and those of its own transaction
Visible(p) == {i \in Ids : files[i].session \in {0, p}}

Committed == {i \in Ids : files[i].session = 0}

\* db.commit() of worker p's session
CommitRows(fs, p) ==
    [i \in 1..Len(fs) |-> IF fs[i].session = p THEN [fs[i] EXCEPT !.session = 0] ELSE fs[i]]

\* the request ends without db.commit(): the rows its session holds are gone
\* (session -1: no query sees them again)
DiscardRows(fs, p) ==
    [i \in 1..Len(fs) |-> IF fs[i].session = p THEN [fs[i] EXCEPT !.session = -1] ELSE fs[i]]

\* the lookup without the owner and is_deleted filters
DuplicateRowsByHash(p, uid, h) ==
    {i \in Visible(p) : files[i].checksum = h}

\* lines 193-201: rows of the owner with this checksum that are not deleted
DuplicateRows(p, uid, h) ==
    {i \in Visible(p) : files[i].owner_id = uid /\ files[i].checksum = h
                        /\ ~files[i].is_deleted}

\* lines 203-208 with the delta stored in place of the sum
_update_user_storage_sets(us, uid, held, size_delta) ==
    [us EXCEPT ![uid].storage_used = IF size_delta > 0 THEN size_delta ELSE 0]

\* lines 203-208, given the storage_used the session holds for the user
_update_user_storage(us, uid, held, size_delta) ==
    LET sum == held + size_delta
    IN [us EXCEPT ![uid].storage_used = IF sum > 0 THEN sum ELSE 0]

----------------------------------------------------------------------------
(* Archive extraction *)

\* An uploaded zip archive holds entries [pos, name, data, size]: pos is the
\* place of the entry in the archive, name its name as a sequence of characters.
ZipOf(entries) ==
    [data |-> "zip", trunc |-> FALSE,
     members |-> {[pos |-> i, name |-> entries[i], data |-> "c3", size |-> RawSize("c3")] :
                     i \in 1..Len(entries)}]

\* zip_ref.namelist(): the entries in archive order
RECURSIVE NameList(_)
NameList(members) ==
    IF members = {} THEN <<>>
    ELSE LET m == CHOOSE x \in members : \A y \in members : x.pos <= y.pos
         IN <<m>> \o NameList(members \ {m})

\* line 449: the entry is passed over
EntrySkipped(member) ==
    Contains(member, <<".", ".">>) \/ (member # <<>> /\ Head(member) = "/")

\* f"{archive_path.stem}_extracted" as one directory component
ExtractedPart(n) ==
    <<n.base>> \o [i \in 1..Len(n.sfx) |-> ToString(n.sfx[i])] \o <<"_extracted">>

\* line 442
ExtractDir(target_dir, archive_path) ==
    [target_dir EXCEPT !.sub = Append(@, ExtractedPart(archive_path.name))]

IsKeptPart(c) == c # <<>> /\ c # <<".">> /\ c # ParentPart

\* ZipFile.extract: the parts of the entry name the library keeps ("", "." and
\* ".." are dropped), and the place below extract_dir they lead to
EntryParts(member) == SelectSeq(Split(member, "/"), IsKeptPart)

EntryTarget(extract_dir, member) ==
    [extract_dir EXCEPT !.sub = @ \o EntryParts(member)]

\* the entry is a directory
EntryIsDir(member) == member # <<>> /\ member[Len(member)] = "/"

\* the directories between extract_dir and the target of the entry
EntryUpperDirs(extract_dir, member) ==
    LET parts == EntryParts(member)
    IN {[extract_dir EXCEPT !.sub = @ \o SubSeq(parts, 1, k)] : k \in 1..(Len(parts) - 1)}

\* ZipFile.extract raises: a file stands where a directory is needed, or a
\* directory where the file is to be written
EntryFails(d, extract_dir, member) ==
    LET target == EntryTarget(extract_dir, member)
    IN \/ \E q \in EntryUpperDirs(extract_dir, member) : Exists(d, q) /\ ~IsDir(d, q)
       \/ EntryIsDir(member) /\ Exists(d, target) /\ ~IsDir(d, target)
       \/ ~EntryIsDir(member) /\ IsDir(d, target)

\* line 451: zip_ref.extract(member, extract_dir), when it does not raise
ExtractEntry(d, extract_dir, m) ==
    LET target == EntryTarget(extract_dir, m.name)
        made == EntryUpperDirs(extract_dir, m.name)
                    \cup (IF EntryIsDir(m.name) THEN {target} ELSE {})
        d1 == [q \in (DOMAIN d) \cup made |-> IF q \in DOMAIN d THEN d[q] ELSE DirEntry]
    IN IF EntryIsDir(m.name) THEN d1 ELSE WriteFile(d1, target, Bytes(m.data))

\* lines 447-451: the loop over the entries; an exception ends it
RECURSIVE ExtractAll(_, _, _)
ExtractAll(d, extract_dir, entries) ==
    IF entries = <<>> THEN d
    ELSE LET m == Head(entries)
         IN IF EntrySkipped(m.name) THEN ExtractAll(d, extract_dir, Tail(entries))
            ELSE IF EntryFails(d, extract_dir, m.name) THEN d
            ELSE ExtractAll(ExtractEntry(d, extract_dir, m), extract_dir, Tail(entries))

\* _extract_archive, lines 433-456: the disk afterwards; every exception is
\* caught and printed
_extract_archive(d, archive_path, target_dir) ==
    LET extract_dir == ExtractDir(target_dir, archive_path)
    IN IF Exists(d, extract_dir) /\ ~IsDir(d, extract_dir) THEN d
       ELSE LET d1 == WriteFile(d, extract_dir, DirEntry)
            IN IF archive_path.name.ext # "zip" \/ d1[archive_path].data # "zip"
                  \/ d1[archive_path].trunc
               THEN d1
               ELSE ExtractAll(d1, extract_dir, NameList(d1[archive_path].members))

----------------------------------------------------------------------------
(* File types *)

\* file_service.py lines 45-82
file_type_configs ==
    [image |-> [max_size |-> 50 * MB,
                extensions |-> {"jpg", "jpeg", "png", "gif", "bmp", "webp", "svg", "tiff"},
                generate_thumbnails |-> TRUE, extract_metadata |-> TRUE],
     video |-> [max_size |-> 500 * MB,
                extensions |-> {"mp4", "avi", "mkv", "mov", "wmv", "flv", "webm"},
                generate_thumbnails |-> TRUE, extract_metadata |-> TRUE],
     audio |-> [max_size |-> 100 * MB,
                extensions |-> {"mp3", "wav", "ogg", "flac", "m4a", "aac"},
                generate_thumbnails |-> FALSE, extract_metadata |-> TRUE],
     document |-> [max_size |-> 100 * MB,
                   extensions |-> {"pdf", "doc", "docx", "txt", "rtf", "odt", "pages"},
                   generate_thumbnails |-> TRUE, extract_metadata |-> TRUE],
     archive |-> [max_size |-> 1024 * MB,
                  extensions |-> {"zip", "rar", "7z", "tar", "gz", "bz2"},
                  generate_thumbnails |-> FALSE, extract_metadata |-> TRUE],
     code |-> [max_size |-> 10 * MB,
               extensions |-> {"py", "js", "html", "css", "json", "xml", "sql", "php",
                               "java", "cpp", "c"},
               generate_thumbnails |-> FALSE, extract_metadata |-> FALSE]]

\* line 98: the configuration of a file of no listed type
OtherConfig ==
    [max_size |-> 50 * MB, extensions |-> {}, generate_thumbnails |-> FALSE,
     extract_metadata |-> FALSE]

\* lines 90-98: the type of a file name (its extension) and the type's configuration
_get_file_type_and_config(n) ==
    LET types == {t \in DOMAIN file_type_configs : n.ext \in file_type_configs[t].extensions}
    IN IF types = {} THEN [file_type |-> "other", type_config |-> OtherConfig]
       ELSE LET t == CHOOSE x \in types : TRUE
            IN [file_type |-> t, type_config |-> file_type_configs[t]]

----------------------------------------------------------------------------
(* Requests *)

Workers == {1, 2}

NoHash == <<"none", Bytes("")>>

\* an uploaded item: the submitted name, its bytes, and what goes wrong while it
\* is processed ("write": the copy to the temp file breaks off with an I/O
\* error; "scan": _scan_for_viruses rejects the file)
Item(n, data, fault) == [filename |-> n, content |-> Bytes(data), fault |-> fault]

IdleWorker ==
    [pc |-> "idle", op |-> "none", user |-> "none", overwrite |-> FALSE,
     items |-> <<>>, idx |-> 0, held_used |-> 0, broken |-> FALSE,
     uploaded |-> <<>>, skipped |-> <<>>, failed |-> <<>>,
     file_path |-> NoPath, temp_path |-> NoPath, file_hash |-> NoHash,
     root |-> NoFile, root_version |-> 0,
     path |-> <<>>, target_dir |-> NoPath, extract_archives |-> FALSE,
     background_tasks |-> FALSE]

\* what a request returned (status 200) or the HTTP error it raised
Ret(op, status) ==
    [op |-> op, status |-> status, user |-> "none", overwrite |-> FALSE, items |-> <<>>,
     uploaded |-> <<>>, skipped |-> <<>>, failed |-> <<>>,
     total_size |-> 0, available |-> 0, used_before |-> 0,
     file_id |-> NoFile, version |-> 0, new_id |-> NoFile,
     path |-> <<>>, extract_archives |-> FALSE, background_tasks |-> FALSE,
     file_path |-> NoPath, listing |-> {}]
\* file_id and version are the request's arguments (for a new version, the
\* number given); new_id is the row the request created (for a restore, the
\* version row it selected)

RECURSIVE SumSeq(_)
SumSeq(s) == IF s = <<>> THEN 0 ELSE Head(s) + SumSeq(Tail(s))

\* sum(file.size for file in files if file.size)
BatchSize(items) == SumSeq([i \in 1..Len(items) |-> Size(items[i].content)])

\* sum(f['size'] for f in uploaded_files)
UploadedSize(uploaded) == SumSeq([i \in 1..Len(uploaded) |-> uploaded[i].size])

\* lines 238-242: the quota check on the whole batch
QuotaExceeded(used, quota, total_size) == used + total_size > quota

CurItem(p) == w[p].items[w[p].idx]

\* the loop of line 248 moves to the next item, or the handler goes on after it
AfterItem(wr) ==
    LET r == [wr EXCEPT !.file_path = NoPath, !.temp_path = NoPath, !.file_hash = NoHash]
    IN IF wr.idx < Len(wr.items)
       THEN [r EXCEPT !.idx = @ + 1, !.pc = "pick"]
       ELSE [r EXCEPT !.pc = "finish"]

\* _process_single_file raised err, leaving the disk as d: upload_files_enhanced
\* records the item as failed (lines 259-263); create_file_version lets the
\* exception through and the request ends with an error
ItemRaised(p, err, d) ==
    /\ disk' = d
    /\ IF w[p].op = "upload"
       THEN /\ w' = [w EXCEPT ![p] = AfterItem(
                       [@ EXCEPT !.failed = Append(@, [filename |-> CurItem(p).filename,
                                                        error |-> err])])]
            /\ UNCHANGED ret
       ELSE /\ w' = [w EXCEPT ![p] = IdleWorker]
            /\ ret' = [ret EXCEPT ![p] = [Ret(w[p].op, 500) EXCEPT
                                            !.user = w[p].user, !.items = w[p].items,
                                            !.file_id = w[p].root,
                                            !.failed = <<[filename |-> CurItem(p).filename,
                                                          error |-> err]>>]]
    /\ UNCHANGED <<conf, files, users, clock>>

\* upload_files_enhanced, lines 221-246: the checks before the first item
UploadBegin(p, uid, items, path, overwrite, extract_archives, background_tasks) ==
    /\ w[p].pc = "idle"
    /\ clock + Len(items) <= MaxOps
    /\ clock' = clock + Len(items)
    /\ LET user == users[uid]
           total_size == BatchSize(items)
           target_dir == TargetDir(uid, path)
           raised(status) == [Ret("upload", status) EXCEPT
                                 !.user = uid, !.items = items, !.overwrite = overwrite,
                                 !.path = path, !.extract_archives = extract_archives,
                                 !.used_before = user.storage_used,
                                 !.available = user.storage_quota - user.storage_used]
       IN IF ~validate_path(path)
          THEN /\ ret' = [ret EXCEPT ![p] = raised(400)]
               /\ UNCHANGED <<w, disk>>
          ELSE IF MkdirFails(disk, target_dir)
          THEN /\ ret' = [ret EXCEPT ![p] = raised(500)]
               /\ UNCHANGED <<w, disk>>
          ELSE /\ disk' = MkdirParents(disk, target_dir)
               /\ IF ~InsideUserDir(target_dir, uid)
                  THEN /\ ret' = [ret EXCEPT ![p] = raised(403)]
                       /\ UNCHANGED w
                  ELSE IF QuotaExceeded(user.storage_used, user.storage_quota, total_size)
                  THEN /\ ret' = [ret EXCEPT ![p] = raised(413)]
                       /\ UNCHANGED w
                  ELSE /\ w' = [w EXCEPT ![p] = [IdleWorker EXCEPT
                                     !.pc = "pick", !.op = "upload", !.user = uid,
                                     !.overwrite = overwrite, !.items = items, !.idx = 1,
                                     !.held_used = user.storage_used,
                                     !.path = path, !.target_dir = target_dir,
                                     !.extract_archives = extract_archives,
                                     !.background_tasks = background_tasks]]
                       /\ UNCHANGED ret
    /\ UNCHANGED <<conf, files, users>>

\* _process_single_file, lines 317-344: the target path and the temp path
PickPath(p) ==
    /\ w[p].pc = "pick"
    /\ LET fp == PickFilePath(disk, w[p].target_dir, CurItem(p).filename, w[p].overwrite)
           type_config == _get_file_type_and_config(CurItem(p).filename).type_config
       IN IF Size(CurItem(p).content) > type_config.max_size
          THEN \* line 341 raises before the try block is entered: nothing is cleaned up
               ItemRaised(p, "size", disk)
          ELSE /\ w' = [w EXCEPT ![p].file_path = fp, ![p].temp_path = TempPathOf(fp),
                                 ![p].pc = "stage"]
               /\ UNCHANGED <<conf, disk, files, users, ret, clock>>

\* lines 346-349: the item's bytes are written to the temp path
Stage(p) ==
    /\ w[p].pc = "stage"
    /\ IF CurItem(p).fault = "write"
       THEN ItemRaised(p, "io",
                CleanUp(WriteFile(disk, w[p].temp_path, Truncated(CurItem(p).content)),
                        w[p].temp_path, w[p].file_path))
       ELSE /\ disk' = WriteFile(disk, w[p].temp_path, CurItem(p).content)
            /\ w' = [w EXCEPT ![p].pc = "check"]
            /\ UNCHANGED <<conf, files, users, ret, clock>>

\* lines 351-373: hash of the temp file, duplicate check, virus scan
Check(p) ==
    /\ w[p].pc = "check"
    /\ IF ~Exists(disk, w[p].temp_path)
       THEN \* open() in _calculate_file_hash raises FileNotFoundError
            ItemRaised(p, "io", CleanUp(disk, w[p].temp_path, w[p].file_path))
       ELSE IF w[p].broken
       THEN \* the query of _check_duplicate_file raises: the session's transaction
            \* was rolled back by a failed flush and rollback() is never called
            ItemRaised(p, "db", CleanUp(disk, w[p].temp_path, w[p].file_path))
       ELSE LET h == _calculate_file_hash(disk[w[p].temp_path])
                dups == DuplicateRows(p, w[p].user, h)
            IN IF dups # {} /\ ~w[p].overwrite
               THEN \* skipped as a duplicate: .first() returns one matching row
                    \E e \in dups :
                      /\ disk' = Unlink(disk, w[p].temp_path)
                      /\ w' = [w EXCEPT ![p] = AfterItem(
                                  [@ EXCEPT !.skipped = Append(@,
                                      [filename |-> CurItem(p).filename,
                                       existing_file_id |-> e])])]
                      /\ UNCHANGED <<conf, files, users, ret, clock>>
               ELSE IF CurItem(p).fault = "scan"
               THEN ItemRaised(p, "virus",
                        CleanUp(Unlink(disk, w[p].temp_path), w[p].temp_path, w[p].file_path))
               ELSE /\ w' = [w EXCEPT ![p].file_hash = h, ![p].pc = "promote"]
                    /\ UNCHANGED <<conf, disk, files, users, ret, clock>>

\* lines 375-423: the temp file is moved to the target path and the row is added
Promote(p) ==
    /\ w[p].pc = "promote"
    /\ IF ~Exists(disk, w[p].temp_path)
       THEN \* shutil.move raises FileNotFoundError
            ItemRaised(p, "io", CleanUp(disk, w[p].temp_path, w[p].file_path))
       ELSE LET d == MoveFile(disk, w[p].temp_path, w[p].file_path)
                id == Len(files) + 1
                row == FileRow(id, w[p].file_path, Size(d[w[p].file_path]),
                               w[p].file_hash, 1, NoFile, w[p].user, p)
                file_type == _get_file_type_and_config(CurItem(p).filename).file_type
                type_config == _get_file_type_and_config(CurItem(p).filename).type_config
                info == [id |-> id, name |-> row.name, size |-> row.size,
                         checksum |-> row.checksum, physical_path |-> row.physical_path,
                         generate_thumbnails |-> type_config.generate_thumbnails]
            IN IF CurItem(p).fault = "flush"
               THEN \* db.flush() of line 402 raises: the session rolls its
                    \* transaction back, the except branch removes the file
                    /\ disk' = CleanUp(d, w[p].temp_path, w[p].file_path)
                    /\ files' = DiscardRows(files, p)
                    /\ w' = [w EXCEPT ![p] = AfterItem(
                               [@ EXCEPT !.broken = TRUE,
                                         !.failed = Append(@, [filename |-> CurItem(p).filename,
                                                               error |-> "flush"])])]
                    /\ UNCHANGED <<conf, users, ret, clock>>
               ELSE
               /\ disk' = IF w[p].extract_archives /\ file_type = "archive"
                          THEN _extract_archive(d, w[p].file_path, w[p].target_dir)
                          ELSE d
               /\ files' = Append(files, row)
               /\ w' = [w EXCEPT ![p] = AfterItem([@ EXCEPT !.uploaded = Append(@, info)])]
               /\ UNCHANGED <<conf, users, ret, clock>>

\* the keys of the file_info dict of lines 410-421
FileInfoKeys ==
    {"id", "name", "original_name", "size", "type", "mime_type", "path", "checksum",
     "metadata", "physical_path", "generate_thumbnails"}

\* lines 274-280: the loop reaches an item with generate_thumbnails set and
\* reads file_info['file_type']
SchedulingRaises(uploaded) ==
    /\ \E j \in 1..Len(uploaded) : uploaded[j].generate_thumbnails
    /\ "file_type" \notin FileInfoKeys

\* upload_files_enhanced, lines 265-304: storage usage, commit, result
UploadFinish(p) ==
    /\ w[p].pc = "finish"
    /\ w[p].op = "upload"
    /\ IF w[p].broken
       THEN \* the query of _update_user_storage (line 205) raises; the handler
            \* ends with the exception and returns no result
            /\ ret' = [ret EXCEPT ![p] = [Ret("upload", 500) EXCEPT
                          !.user = w[p].user, !.items = w[p].items,
                          !.overwrite = w[p].overwrite, !.used_before = w[p].held_used,
                          !.path = w[p].path, !.extract_archives = w[p].extract_archives]]
            /\ UNCHANGED <<users, files>>
       ELSE
       LET total == UploadedSize(w[p].uploaded)
       IN /\ users' = _update_user_storage(users, w[p].user, w[p].held_used, total)
          /\ files' = CommitRows(files, p)
          /\ IF w[p].background_tasks /\ SchedulingRaises(w[p].uploaded)
             THEN \* lines 273-280: the arguments of add_task are evaluated first
                  \* and file_info['file_type'] raises KeyError; no task is added
                  \* and the handler ends with the exception
                  ret' = [ret EXCEPT ![p] = [Ret("upload", 500) EXCEPT
                        !.user = w[p].user, !.items = w[p].items,
                        !.overwrite = w[p].overwrite, !.used_before = w[p].held_used,
                        !.path = w[p].path, !.extract_archives = w[p].extract_archives,
                        !.background_tasks = w[p].background_tasks]]
             ELSE ret' = [ret EXCEPT ![p] = [Ret("upload", 200) EXCEPT
                        !.user = w[p].user, !.items = w[p].items,
                        !.overwrite = w[p].overwrite, !.used_before = w[p].held_used,
                        !.path = w[p].path, !.extract_archives = w[p].extract_archives,
                        !.background_tasks = w[p].background_tasks,
                        !.uploaded = w[p].uploaded, !.skipped = w[p].skipped,
                        !.failed = w[p].failed, !.total_size = total]]
    /\ w' = [w EXCEPT ![p] = IdleWorker]
    /\ UNCHANGED <<conf, disk, clock>>

----------------------------------------------------------------------------
(* Versions *)

\* the row a query by id and owner returns (lines 468-470, 549-551, 585-587,
\* 621-623), or NoFile
FindFile(p, file_id, uid) ==
    IF file_id \in Visible(p) /\ files[file_id].owner_id = uid THEN file_id ELSE NoFile

\* create_file_version, lines 467-481: the original is loaded, then the new file
\* is processed as one item with overwrite=True, in the original's directory
VersionBegin(p, file_id, uid, item) ==
    /\ w[p].pc = "idle"
    /\ clock < MaxOps
    /\ clock' = clock + 1
    /\ IF FindFile(p, file_id, uid) = NoFile
       THEN /\ ret' = [ret EXCEPT ![p] = [Ret("version", 404) EXCEPT
                          !.user = uid, !.file_id = file_id, !.items = <<item>>]]
            /\ UNCHANGED w
       ELSE /\ w' = [w EXCEPT ![p] = [IdleWorker EXCEPT
                          !.pc = "pick", !.op = "version", !.user = uid,
                          !.overwrite = TRUE, !.items = <<item>>, !.idx = 1,
                          !.root = file_id, !.root_version = files[file_id].version,
                          !.target_dir = Parent(files[file_id].physical_path)]]
            /\ UNCHANGED ret
    /\ UNCHANGED <<conf, disk, files, users>>

\* create_file_version, lines 486-526: the version row is added next to the row
\* _process_single_file has added, and the original takes the new number
VersionFinish(p) ==
    /\ w[p].pc = "finish"
    /\ w[p].op = "version"
    /\ LET info == w[p].uploaded[1]
           new_version == w[p].root_version + 1
           id == Len(files) + 1
           row == [FileRow(id, info.physical_path, info.size, info.checksum,
                           new_version, w[p].root, w[p].user, p)
                   EXCEPT !.name = info.name]
           fs == [Append(files, row) EXCEPT ![w[p].root].version = new_version,
                                            ![w[p].root].updated_at = clock]
       IN /\ files' = CommitRows(fs, p)
          /\ ret' = [ret EXCEPT ![p] = [Ret("version", 200) EXCEPT
                        !.user = w[p].user, !.items = w[p].items, !.file_id = w[p].root,
                        !.uploaded = w[p].uploaded,
                        !.version = new_version, !.new_id = id]]
    /\ w' = [w EXCEPT ![p] = IdleWorker]
    /\ UNCHANGED <<conf, disk, users, clock>>

\* lines 537-543: the rows of the requested version
VersionRows(p, file_id, version, uid) ==
    {i \in Visible(p) : files[i].parent_file_id = file_id /\ files[i].version = version
                        /\ files[i].owner_id = uid}

\* a restore that takes the file of another row of the lineage when the
\* version's own file is not on disk
RestoreSourceFallback(d, fs, v) ==
    LET others == {i \in 1..Len(fs) :
                      /\ i # v
                      /\ \/ fs[i].parent_file_id = fs[v].parent_file_id
                         \/ i = fs[v].parent_file_id
                      /\ Exists(d, fs[i].physical_path)}
    IN IF Exists(d, fs[v].physical_path) THEN fs[v].physical_path
       ELSE IF others = {} THEN NoPath
       ELSE fs[CHOOSE i \in others : TRUE].physical_path

\* line 560: the file the restore copies from, NoPath when the version's file
\* is not on disk
RestoreSource(d, fs, v) ==
    IF Exists(d, fs[v].physical_path) THEN fs[v].physical_path ELSE NoPath

\* a restore that also gives the current row the restored version's number
RestoredRowRenumbers(current, version_row, now) ==
    [current EXCEPT !.size = version_row.size, !.checksum = version_row.checksum,
                    !.updated_at = now, !.version = version_row.version]

\* lines 564-567: the current row after the restore
RestoredRow(current, version_row, now) ==
    [current EXCEPT !.size = version_row.size, !.checksum = version_row.checksum,
                    !.updated_at = now]

\* restore_file_version, lines 536-579
RestoreFileVersion(p, file_id, version, uid) ==
    /\ w[p].pc = "idle"
    /\ clock < MaxOps
    /\ clock' = clock + 1
    /\ w' = w
    /\ UNCHANGED <<conf, users>>
    /\ LET base == [Ret("restore", 404) EXCEPT !.user = uid, !.file_id = file_id,
                                               !.version = version]
           vrows == VersionRows(p, file_id, version, uid)
       IN IF vrows = {} \/ FindFile(p, file_id, uid) = NoFile
          THEN /\ ret' = [ret EXCEPT ![p] = base]
               /\ UNCHANGED <<disk, files>>
          ELSE \E v \in vrows :
                 LET version_path == RestoreSource(disk, files, v)
                     current_path == files[file_id].physical_path
                 IN IF version_path = NoPath
                    THEN /\ ret' = [ret EXCEPT ![p] = [base EXCEPT !.new_id = v]]
                         /\ UNCHANGED <<disk, files>>
                    ELSE IF version_path = current_path
                    THEN \* shutil.copy2 raises SameFileError
                         /\ ret' = [ret EXCEPT ![p] = [base EXCEPT !.status = 500,
                                                                   !.new_id = v]]
                         /\ UNCHANGED <<disk, files>>
                    ELSE /\ disk' = WriteFile(disk, current_path, disk[version_path])
                         /\ files' = [files EXCEPT
                                ![file_id] = RestoredRow(files[file_id], files[v], clock')]
                         /\ ret' = [ret EXCEPT ![p] = [base EXCEPT !.status = 200,
                                                                   !.new_id = v]]

\* get_file_versions, lines 593-598: the rows of the lineage; the query orders
\* them by version, highest first
LineageRows(file_id) ==
    {i \in Committed : i = file_id \/ files[i].parent_file_id = file_id}

RECURSIVE OrderByVersionDesc(_)
OrderByVersionDesc(S) ==
    IF S = {} THEN <<>>
    ELSE LET m == CHOOSE x \in S : \A y \in S :
                      \/ files[x].version > files[y].version
                      \/ files[x].version = files[y].version /\ x <= y
         IN <<m>> \o OrderByVersionDesc(S \ {m})

\* get_file_versions, lines 600-610: the entries returned for a file that exists
\* (rows of the same version come in the order the database gives them, here
\* by id)
GetFileVersions(file_id) ==
    LET ids == OrderByVersionDesc(LineageRows(file_id))
    IN [i \in 1..Len(ids) |->
          [id |-> ids[i], version |-> files[ids[i]].version, size |-> files[ids[i]].size,
           checksum |-> files[ids[i]].checksum, is_current |-> (ids[i] = file_id)]]

----------------------------------------------------------------------------
(* Copies and archives *)

\* duplicate_file, lines 641-649: the loop appends "_<counter>" to the name it
\* has built so far until the name is free
RECURSIVE FreeCopyName(_, _, _, _)
FreeCopyName(d, dir, n, counter) ==
    IF Exists(d, PathIn(dir, n)) THEN FreeCopyName(d, dir, Suffixed(n, counter), counter + 1)
    ELSE n

\* duplicate_file, lines 620-688, called without new_name
DuplicateFile(p, file_id, uid) ==
    /\ w[p].pc = "idle"
    /\ clock < MaxOps
    /\ clock' = clock + 1
    /\ w' = w
    /\ UNCHANGED conf
    /\ LET base == [Ret("duplicate", 404) EXCEPT !.user = uid, !.file_id = file_id,
                                                 !.used_before = users[uid].storage_used]
       IN IF FindFile(p, file_id, uid) = NoFile
          THEN /\ ret' = [ret EXCEPT ![p] = base]
               /\ UNCHANGED <<disk, files, users>>
          ELSE LET original == files[file_id]
                   parent == Parent(original.physical_path)
                   new_name == FreeCopyName(disk, parent, Suffixed(original.name, 0), 1)
                   new_path == PathIn(parent, new_name)
                   id == Len(files) + 1
               IN IF ~Exists(disk, original.physical_path)
                  THEN \* shutil.copy2 raises FileNotFoundError
                       /\ ret' = [ret EXCEPT ![p] = [base EXCEPT !.status = 500]]
                       /\ UNCHANGED <<disk, files, users>>
                  ELSE /\ disk' = WriteFile(disk, new_path, disk[original.physical_path])
                       /\ files' = Append(files,
                              FileRow(id, new_path, original.size, original.checksum,
                                      1, NoFile, uid, 0))
                       /\ users' = _update_user_storage(users, uid,
                                       users[uid].storage_used, original.size)
                       /\ ret' = [ret EXCEPT ![p] = [base EXCEPT !.status = 200,
                                                                 !.new_id = id]]

\* the entries zipf.write puts into the archive (lines 720-724)
ArchiveMembers(d, rows) ==
    {[name |-> files[i].name, data |-> d[files[i].physical_path].data,
      size |-> Size(d[files[i].physical_path])] :
        i \in {j \in rows : Exists(d, files[j].physical_path)}}

\* create_file_archive, lines 699-763, called without archive_name: the name is
\* "archive_<time of the call>.zip"
CreateFileArchive(p, file_ids, uid) ==
    /\ w[p].pc = "idle"
    /\ clock < MaxOps
    /\ clock' = clock + 1
    /\ w' = w
    /\ UNCHANGED conf
    /\ LET base == [Ret("archive", 404) EXCEPT !.user = uid,
                                               !.used_before = users[uid].storage_used]
           rows == {i \in Visible(p) \cap file_ids :
                      files[i].owner_id = uid /\ ~files[i].is_deleted}
           archive_path == Path(uid, Name("archive", <<clock'>>, "zip"))
           zip == [data |-> "zip", trunc |-> FALSE, members |-> ArchiveMembers(disk, rows)]
           id == Len(files) + 1
       IN IF rows = {}
          THEN /\ ret' = [ret EXCEPT ![p] = base]
               /\ UNCHANGED <<disk, files, users>>
          ELSE /\ disk' = WriteFile(disk, archive_path, zip)
               /\ files' = Append(files,
                      FileRow(id, archive_path, Size(zip), _calculate_file_hash(zip),
                              1, NoFile, uid, 0))
               /\ users' = _update_user_storage(users, uid,
                               users[uid].storage_used, Size(zip))
               /\ ret' = [ret EXCEPT ![p] = [base EXCEPT !.status = 200, !.new_id = id,
                                                         !.total_size = Size(zip)]]

----------------------------------------------------------------------------
(* FileService.upload_files of emberframe-v2 *)

\* emberframe-v2 file_service.py lines 35-42
allowed_extensions ==
    [image |-> {"jpg", "jpeg", "png", "gif", "bmp", "webp", "svg"},
     document |-> {"txt", "md", "pdf", "doc", "docx", "rtf", "odt"},
     archive |-> {"zip", "rar", "7z", "tar", "gz"},
     audio |-> {"mp3", "wav", "ogg", "flac", "m4a"},
     video |-> {"mp4", "avi", "mkv", "mov", "wmv", "flv"},
     code |-> {"py", "js", "html", "css", "json", "xml", "sql"}]

\* emberframe-v2 file_service.py lines 45-52
max_file_sizes ==
    [image |-> 10 * MB, document |-> 50 * MB, archive |-> 100 * MB,
     audio |-> 50 * MB, video |-> 500 * MB, code |-> 5 * MB]

\* app/core/config.py line 31
MAX_FILE_SIZE == 100 * MB

\* lines 68-84: the category of the file at path fp, by the suffix of fp
_detect_file_type(fp) ==
    LET cats == {c \in DOMAIN allowed_extensions : fp.name.ext \in allowed_extensions[c]}
    IN IF cats = {} THEN "other" ELSE CHOOSE c \in cats : TRUE

\* lines 86-104: 0 when the file passes, else the status of the HTTPException
_validate_file(item, file_type) ==
    LET max_size == IF file_type \in DOMAIN max_file_sizes THEN max_file_sizes[file_type]
                    ELSE MAX_FILE_SIZE
        ext == IF item.filename.ext # "" THEN item.filename.ext ELSE item.filename.base
        allowed_exts == IF file_type \in DOMAIN allowed_extensions
                        THEN allowed_extensions[file_type] ELSE {}
    IN IF Size(item.content) > max_size THEN 413
       ELSE IF allowed_exts # {} /\ ext \notin allowed_exts THEN 400
       ELSE 0

\* thumbnail_dir / f"thumb_{name}": token -1 stands for the prefix "thumb_"
ThumbnailPath(fp) ==
    [fp EXCEPT !.sub = Append(@, <<"thumbnails">>),
               !.name = [fp.name EXCEPT !.sfx = <<-1>> \o @]]

\* lines 106-127: the disk after _create_thumbnail; an error inside is caught
_create_thumbnail(d, fp) ==
    LET dir == Parent(ThumbnailPath(fp))
    IN IF fp.name.ext \notin {"jpg", "jpeg", "png", "bmp", "webp"} THEN d
       ELSE IF Exists(d, dir) /\ ~IsDir(d, dir) THEN d
       ELSE LET d1 == WriteFile(d, dir, DirEntry)
            IN IF d[fp].data = "img"
               THEN WriteFile(d1, ThumbnailPath(fp), Bytes("thumb"))
               ELSE d1

\* upload_files, lines 226-243: the checks before the first file
UploadFilesBegin(p, uid, items, path) ==
    /\ w[p].pc = "idle"
    /\ clock + Len(items) <= MaxOps
    /\ clock' = clock + Len(items)
    /\ LET user == users[uid]
           total_size == BatchSize(items)
           target_dir == TargetDir(uid, path)
           raised(status) == [Ret("upload_files", status) EXCEPT
                                 !.user = uid, !.items = items, !.path = path,
                                 !.used_before = user.storage_used,
                                 !.available = user.storage_quota - user.storage_used]
       IN IF ~validate_path(path)
          THEN /\ ret' = [ret EXCEPT ![p] = raised(400)]
               /\ UNCHANGED <<w, disk>>
          ELSE IF MkdirFails(disk, target_dir)
          THEN /\ ret' = [ret EXCEPT ![p] = raised(500)]
               /\ UNCHANGED <<w, disk>>
          ELSE /\ disk' = MkdirParents(disk, target_dir)
               /\ IF ~InsideUserDir(target_dir, uid)
                  THEN /\ ret' = [ret EXCEPT ![p] = raised(403)]
                       /\ UNCHANGED w
                  ELSE IF QuotaExceeded(user.storage_used, user.storage_quota, total_size)
                  THEN /\ ret' = [ret EXCEPT ![p] = raised(413)]
                       /\ UNCHANGED w
                  ELSE /\ w' = [w EXCEPT ![p] = [IdleWorker EXCEPT
                                     !.pc = "file", !.op = "upload_files", !.user = uid,
                                     !.items = items, !.idx = 1,
                                     !.held_used = user.storage_used,
                                     !.path = path, !.target_dir = target_dir]]
                       /\ UNCHANGED ret
    /\ UNCHANGED <<conf, files, users>>

\* upload_files, lines 245-315: one file of the batch; an error ends the request
UploadFilesItem(p) ==
    /\ w[p].pc = "file"
    /\ LET item == CurItem(p)
           file_path == PickFilePath(disk, w[p].target_dir, item.filename, FALSE)
           temp_path == TempPathOf(file_path)
           d1 == WriteFile(disk, temp_path, item.content)
           file_type == _detect_file_type(temp_path)
           d2 == MoveFile(d1, temp_path, file_path)
           d3 == _create_thumbnail(d2, file_path)
           id == Len(files) + 1
           row == FileRow(id, file_path, Size(d2[file_path]),
                          _calculate_file_hash(d2[file_path]), 1, NoFile, w[p].user, p)
           info == [id |-> id, name |-> row.name, size |-> row.size,
                    checksum |-> row.checksum, physical_path |-> row.physical_path]
       IN IF _validate_file(item, file_type) # 0
          THEN \* lines 311-315: the temp file is removed, the request ends with 400
               /\ disk' = Unlink(d1, temp_path)
               /\ files' = DiscardRows(files, p)
               /\ w' = [w EXCEPT ![p] = IdleWorker]
               /\ ret' = [ret EXCEPT ![p] = [Ret("upload_files", 400) EXCEPT
                              !.user = w[p].user, !.items = w[p].items, !.path = w[p].path,
                              !.used_before = w[p].held_used,
                              !.uploaded = w[p].uploaded,
                              !.failed = <<[filename |-> item.filename,
                                            error |-> "validate"]>>]]
          ELSE /\ disk' = d3
               /\ files' = Append(files, row)
               /\ w' = [w EXCEPT ![p] = [AfterItem([@ EXCEPT !.uploaded = Append(@, info)])
                                           EXCEPT !.pc = IF @ = "pick" THEN "file" ELSE @]]
               /\ UNCHANGED ret
    /\ UNCHANGED <<conf, users, clock>>

\* upload_files, lines 317-336: storage usage, commit, result
UploadFilesFinish(p) ==
    /\ w[p].pc = "finish"
    /\ w[p].op = "upload_files"
    /\ LET total_size == BatchSize(w[p].items)
       IN /\ users' = _update_user_storage(users, w[p].user, w[p].held_used, total_size)
          /\ files' = CommitRows(files, p)
          /\ ret' = [ret EXCEPT ![p] = [Ret("upload_files", 200) EXCEPT
                        !.user = w[p].user, !.items = w[p].items, !.path = w[p].path,
                        !.used_before = w[p].held_used,
                        !.uploaded = w[p].uploaded, !.total_size = total_size]]
    /\ w' = [w EXCEPT ![p] = IdleWorker]
    /\ UNCHANGED <<conf, disk, clock>>

\* the rows the query of get_file (lines 343-345) matches: the caller names a
\* file by its path below the owner's directory
FileRowsAt(fs, p, uid, file_path) ==
    {f \in 1..Len(fs) : /\ fs[f].session \in {0, p}
                        /\ fs[f].owner_id = uid
                        /\ fs[f].physical_path = file_path}

\* get_file, lines 338-354: the status of the call (every matching row names
\* the same physical file, so the status does not depend on the row .first()
\* returns)
get_file_status(fs, d, p, uid, file_path) ==
    IF FileRowsAt(fs, p, uid, file_path) = {} THEN 404
    ELSE IF ~Exists(d, file_path) THEN 404
    ELSE 200

\* get_file as a request
GetFile(p, uid, file_path) ==
    /\ w[p].pc = "idle"
    /\ ret' = [ret EXCEPT ![p] = [Ret("get_file",
                                        get_file_status(files, disk, p, uid, file_path)) EXCEPT
                                    !.user = uid, !.file_path = file_path]]
    /\ UNCHANGED <<conf, disk, files, users, w, clock>>

\* list_files, lines 170-187: the files iterdir() finds in the directory
ListedFiles(d, dir) == {q \in DOMAIN d : q.name # NoName /\ Parent(q) = dir /\ ~IsDir(d, q)}

\* list_files of the owner's directory as a request (the page holds 50 items)
ListFiles(p, uid) ==
    /\ w[p].pc = "idle"
    /\ ret' = [ret EXCEPT ![p] = [Ret("list_files", 200) EXCEPT
                                    !.user = uid,
                                    !.listing = ListedFiles(disk, _get_user_dir(uid))]]
    /\ UNCHANGED <<conf, disk, files, users, w, clock>>

\* shutil.rmtree(physical_path)
RmTree(d, dir) ==
    [q \in {x \in DOMAIN d : ~(x.owner = dir.owner /\ x.up = dir.up
                                 /\ Len(x.sub) >= Len(dir.sub) + 1
                                 /\ dir.name = NoName
                                 /\ SubSeq(x.sub, 1, Len(dir.sub)) = dir.sub) /\ x # dir} |-> d[q]]

\* db.delete(file_record) and commit: no query sees the row again
DeleteRow(fs, f) == [fs EXCEPT ![f].session = -1]

\* delete_file, lines 374-410
DeleteFile(p, uid, file_path) ==
    /\ w[p].pc = "idle"
    /\ clock < MaxOps
    /\ clock' = clock + 1
    /\ LET answer(code) == [Ret("delete_file", code) EXCEPT
                               !.user = uid, !.file_path = file_path,
                               !.used_before = users[uid].storage_used]
       IN IF get_file_status(files, disk, p, uid, file_path) # 200
          THEN /\ ret' = [ret EXCEPT ![p] = answer(404)]
               /\ UNCHANGED <<disk, files, users>>
          ELSE \E f \in FileRowsAt(files, p, uid, file_path) :
                 LET file_size == Size(disk[file_path])
                     thumbnail_path == ThumbnailPath(file_path)
                     d1 == IF IsDir(disk, file_path) THEN RmTree(disk, file_path)
                           ELSE Unlink(disk, file_path)
                     d2 == IF ~IsDir(disk, file_path) /\ Exists(d1, thumbnail_path)
                           THEN Unlink(d1, thumbnail_path) ELSE d1
                 IN /\ disk' = d2
                    /\ users' = _update_user_storage(users, uid, users[uid].storage_used,
                                                      0 - file_size)
                    /\ files' = DeleteRow(files, f)
                    /\ ret' = [ret EXCEPT ![p] = [answer(200) EXCEPT !.file_id = f,
                                                                     !.total_size = file_size]]
    /\ UNCHANGED <<conf, w>>

----------------------------------------------------------------------------
(* Specifications *)

U1 == "u1"

TxtA == Name("a", <<>>, "txt")
TxtB == Name("b", <<>>, "txt")

\* the zip archives submitted, under the names ending in .zip
ArchiveItems ==
    {[filename |-> n, content |-> ZipOf(entries), fault |-> "none"] :
        n \in {x \in conf.names : x.ext = "zip"}, entries \in conf.archives}

Items ==
    {Item(n, c, f) : n \in conf.names, c \in conf.datas, f \in conf.faults}
        \cup ArchiveItems

\* the files submitted as new versions
VersionItems == {Item(n, c, f) : n \in conf.names, c \in conf.vdatas, f \in conf.faults}

Batches == UNION {[1..n -> Items] : n \in 1..conf.batch}

\* what a specification leaves open is as in the plainest call
Defaults == [archives |-> {}, owners |-> {U1}, rows |-> <<>>]

InitState(c) ==
    /\ conf = c @@ Defaults
    /\ disk = <<>>
    /\ files = (c @@ Defaults).rows
    /\ users = [u \in (c @@ Defaults).owners |->
                   [storage_used |-> 0, storage_quota |-> c.quota]]
    /\ w = [p \in c.workers |-> IdleWorker]
    /\ ret = [p \in c.workers |-> Ret("none", 0)]
    /\ clock = 0

Upload(p) ==
    \E items \in Batches, path \in conf.paths, overwrite \in conf.overwrite,
       extract_archives \in conf.extract, background_tasks \in conf.background :
        UploadBegin(p, U1, items, path, overwrite, extract_archives, background_tasks)

CreateVersion(p) ==
    \E file_id \in 1..(Len(files) + 1), item \in VersionItems : VersionBegin(p, file_id, U1, item)

HighestVersion ==
    IF files = <<>> THEN 0
    ELSE CHOOSE v \in {files[i].version : i \in Ids} :
             \A i \in Ids : files[i].version <= v

Restore(p) ==
    \E file_id \in Ids, version \in 1..(HighestVersion + 1) :
        RestoreFileVersion(p, file_id, version, U1)

Duplicate(p) ==
    \E file_id \in Ids : DuplicateFile(p, file_id, U1)

Archive(p) ==
    \E file_ids \in (SUBSET Ids) \ {{}} : CreateFileArchive(p, file_ids, U1)

\* one request at a time: versions and restores of stored files
Init ==
    InitState([workers |-> {1}, names |-> {TxtA, TxtB}, datas |-> {"c1"},
               vdatas |-> {"c2"}, faults |-> {"none", "scan"},
               overwrite |-> {FALSE}, batch |-> 1, quota |-> 1000,
               paths |-> {<<>>}, extract |-> {FALSE}, background |-> {FALSE}])

Next ==
    \/ \E p \in conf.workers : Upload(p)
    \/ \E p \in conf.workers : PickPath(p)
    \/ \E p \in conf.workers : Stage(p)
    \/ \E p \in conf.workers : Check(p)
    \/ \E p \in conf.workers : Promote(p)
    \/ \E p \in conf.workers : UploadFinish(p)
    \/ \E p \in conf.workers : CreateVersion(p)
    \/ \E p \in conf.workers : VersionFinish(p)
    \/ \E p \in conf.workers : Restore(p)

Spec == Init /\ [][Next]_vars

\* one request at a time: uploads in batches, copies and archives
InitIngest ==
    InitState([workers |-> {1}, names |-> {TxtA, TxtB}, datas |-> {"c1", "c2", "c3"},
               vdatas |-> {}, faults |-> {"none"}, overwrite |-> {FALSE},
               batch |-> MaxBatch, quota |-> 1000,
               paths |-> {<<>>}, extract |-> {FALSE}, background |-> {FALSE}])

NextIngest ==
    \/ \E p \in conf.workers : Upload(p)
    \/ \E p \in conf.workers : PickPath(p)
    \/ \E p \in conf.workers : Stage(p)
    \/ \E p \in conf.workers : Check(p)
    \/ \E p \in conf.workers : Promote(p)
    \/ \E p \in conf.workers : UploadFinish(p)
    \/ \E p \in conf.workers : Duplicate(p)
    \/ \E p \in conf.workers : Archive(p)

SpecIngest == InitIngest /\ [][NextIngest]_vars

\* one request at a time: uploads whose items fail or repeat stored content
TmpA == Name("a", <<>>, "tmp")

InitFaults ==
    InitState([workers |-> {1}, names |-> {TxtA, TmpA}, datas |-> {"c3"},
               vdatas |-> {}, faults |-> {"none", "scan", "write"},
               overwrite |-> {FALSE, TRUE}, batch |-> MaxBatch, quota |-> 1000,
               paths |-> {<<>>}, extract |-> {FALSE}, background |-> {FALSE}])

NextFaults ==
    \/ \E p \in conf.workers : Upload(p)
    \/ \E p \in conf.workers : PickPath(p)
    \/ \E p \in conf.workers : Stage(p)
    \/ \E p \in conf.workers : Check(p)
    \/ \E p \in conf.workers : Promote(p)
    \/ \E p \in conf.workers : UploadFinish(p)

SpecFaults == InitFaults /\ [][NextFaults]_vars

\* two uploads of one owner in flight at once
InitConc ==
    InitState([workers |-> Workers, names |-> {TxtA}, datas |-> {"c1", "c2"},
               vdatas |-> {}, faults |-> {"none"}, overwrite |-> {FALSE}, batch |-> 1,
               quota |-> 1000,
               paths |-> {<<>>}, extract |-> {FALSE}, background |-> {FALSE}])

NextConc ==
    \/ \E p \in conf.workers : Upload(p)
    \/ \E p \in conf.workers : PickPath(p)
    \/ \E p \in conf.workers : Stage(p)
    \/ \E p \in conf.workers : Check(p)
    \/ \E p \in conf.workers : Promote(p)
    \/ \E p \in conf.workers : UploadFinish(p)

SpecConc == InitConc /\ [][NextConc]_vars

\* one request at a time: uploads into a directory the caller names
PathChars == {"d", ".", "/", "\\"}

Paths == UNION {[1..k -> PathChars] : k \in 0..MaxPath}

InitPaths ==
    \E path \in Paths :
        InitState([workers |-> {1}, names |-> {TxtA}, datas |-> {"c3"},
                   vdatas |-> {}, faults |-> {"none"}, overwrite |-> {FALSE},
                   batch |-> 1, quota |-> 1000,
                   paths |-> {path}, extract |-> {FALSE}, background |-> {FALSE}])

NextPaths ==
    \/ \E p \in conf.workers : Upload(p)
    \/ \E p \in conf.workers : PickPath(p)
    \/ \E p \in conf.workers : Stage(p)
    \/ \E p \in conf.workers : Check(p)
    \/ \E p \in conf.workers : Promote(p)
    \/ \E p \in conf.workers : UploadFinish(p)

SpecPaths == InitPaths /\ [][NextPaths]_vars

\* one request at a time, through either service: files near the size limits
PyA == Name("a", <<>>, "py")

UploadFiles(p) ==
    \E items \in Batches, path \in conf.paths : UploadFilesBegin(p, U1, items, path)

\* the quota is the default of User.storage_quota
InitSizes ==
    InitState([workers |-> {1}, names |-> {PyA, TxtA}, datas |-> {"c3", "c4", "c5"},
               vdatas |-> {}, faults |-> {"none"}, overwrite |-> {FALSE, TRUE},
               batch |-> MaxBatch, quota |-> 1024 * MB,
               paths |-> {<<>>}, extract |-> {FALSE}, background |-> {FALSE}])

NextSizes ==
    \/ \E p \in conf.workers : Upload(p)
    \/ \E p \in conf.workers : PickPath(p)
    \/ \E p \in conf.workers : Stage(p)
    \/ \E p \in conf.workers : Check(p)
    \/ \E p \in conf.workers : Promote(p)
    \/ \E p \in conf.workers : UploadFinish(p)
    \/ \E p \in conf.workers : UploadFiles(p)
    \/ \E p \in conf.workers : UploadFilesItem(p)
    \/ \E p \in conf.workers : UploadFilesFinish(p)

SpecSizes == InitSizes /\ [][NextSizes]_vars

\* one request at a time: uploads of a zip archive that is extracted
ZipA == Name("a", <<>>, "zip")

EntryChars == {"d", ".", "/"}

EntryNames == UNION {[1..k -> EntryChars] : k \in 1..MaxMember}

InitExtract ==
    \E entries \in {<<n>> : n \in EntryNames} \cup (EntryNames \X EntryNames) :
        InitState([workers |-> {1}, names |-> {ZipA}, datas |-> {},
                   vdatas |-> {}, faults |-> {"none"}, overwrite |-> {FALSE},
                   batch |-> 1, quota |-> 1000,
                   paths |-> {<<>>}, extract |-> {TRUE}, background |-> {FALSE},
                   archives |-> {entries}])

NextExtract ==
    \/ \E p \in conf.workers : Upload(p)
    \/ \E p \in conf.workers : PickPath(p)
    \/ \E p \in conf.workers : Stage(p)
    \/ \E p \in conf.workers : Check(p)
    \/ \E p \in conf.workers : Promote(p)
    \/ \E p \in conf.workers : UploadFinish(p)

SpecExtract == InitExtract /\ [][NextExtract]_vars

\* one request at a time: uploads in which the insert of a File row fails
InitPersist ==
    InitState([workers |-> {1}, names |-> {TxtA, TxtB}, datas |-> {"c1", "c3"},
               vdatas |-> {}, faults |-> {"none", "flush"},
               overwrite |-> {FALSE}, batch |-> MaxBatch, quota |-> 2000,
               paths |-> {<<>>}, extract |-> {FALSE}, background |-> {FALSE}])

NextPersist ==
    \/ \E p \in conf.workers : Upload(p)
    \/ \E p \in conf.workers : PickPath(p)
    \/ \E p \in conf.workers : Stage(p)
    \/ \E p \in conf.workers : Check(p)
    \/ \E p \in conf.workers : Promote(p)
    \/ \E p \in conf.workers : UploadFinish(p)

SpecPersist == InitPersist /\ [][NextPersist]_vars

\* one request at a time: uploads with and without a BackgroundTasks object
InitThumbs ==
    InitState([workers |-> {1}, names |-> {TxtA, PyA}, datas |-> {"c1", "c3"},
               vdatas |-> {}, faults |-> {"none", "scan"},
               overwrite |-> {FALSE}, batch |-> MaxBatch, quota |-> 2000,
               paths |-> {<<>>}, extract |-> {FALSE}, background |-> {FALSE, TRUE}])

NextThumbs ==
    \/ \E p \in conf.workers : Upload(p)
    \/ \E p \in conf.workers : PickPath(p)
    \/ \E p \in conf.workers : Stage(p)
    \/ \E p \in conf.workers : Check(p)
    \/ \E p \in conf.workers : Promote(p)
    \/ \E p \in conf.workers : UploadFinish(p)

SpecThumbs == InitThumbs /\ [][NextThumbs]_vars

\* one request at a time on FileService: uploads, look-ups, listings, deletions
NamedPaths == {Path(U1, n) : n \in conf.names} \cup {files[f].physical_path : f \in Ids}

Get(p) == \E file_path \in NamedPaths : GetFile(p, U1, file_path)

List(p) == ListFiles(p, U1)

Delete(p) == \E file_path \in NamedPaths : DeleteFile(p, U1, file_path)

InitStore ==
    InitState([workers |-> {1}, names |-> {TxtA, TmpA}, datas |-> {"c1", "c3"},
               vdatas |-> {}, faults |-> {"none"}, overwrite |-> {FALSE},
               batch |-> MaxBatch, quota |-> 2000,
               paths |-> {<<>>}, extract |-> {FALSE}, background |-> {FALSE}])

NextStore ==
    \/ \E p \in conf.workers : UploadFiles(p)
    \/ \E p \in conf.workers : UploadFilesItem(p)
    \/ \E p \in conf.workers : UploadFilesFinish(p)
    \/ \E p \in conf.workers : Get(p)
    \/ \E p \in conf.workers : List(p)
    \/ \E p \in conf.workers : Delete(p)

SpecStore == InitStore /\ [][NextStore]_vars

\* one request at a time, of one of two owners; the table starts with a row of
\* the first owner that has been marked deleted and whose file is gone
U2 == "u2"

DeletedRow ==
    [FileRow(1, Path(U1, TxtB), RawSize("c1"), _calculate_file_hash(Bytes("c1")),
             1, NoFile, U1, 0) EXCEPT !.is_deleted = TRUE]

UploadAs(p) ==
    \E uid \in conf.owners, items \in Batches, path \in conf.paths,
       overwrite \in conf.overwrite, extract_archives \in conf.extract,
       background_tasks \in conf.background :
        UploadBegin(p, uid, items, path, overwrite, extract_archives, background_tasks)

InitOwners ==
    InitState([workers |-> {1}, names |-> {TxtA}, datas |-> {"c1", "c3"},
               vdatas |-> {}, faults |-> {"none"}, overwrite |-> {FALSE},
               batch |-> MaxBatch, quota |-> 2000,
               paths |-> {<<>>}, extract |-> {FALSE}, background |-> {FALSE},
               owners |-> {U1, U2}, rows |-> <<DeletedRow>>])

NextOwners ==
    \/ \E p \in conf.workers : UploadAs(p)
    \/ \E p \in conf.workers : PickPath(p)
    \/ \E p \in conf.workers : Stage(p)
    \/ \E p \in conf.workers : Check(p)
    \/ \E p \in conf.workers : Promote(p)
    \/ \E p \in conf.workers : UploadFinish(p)

SpecOwners == InitOwners /\ [][NextOwners]_vars

\* create_file_version calls of one owner in flight at once
InitVersions ==
    InitState([workers |-> Workers, names |-> {TxtA}, datas |-> {"c1"},
               vdatas |-> {"c2", "c3"}, faults |-> {"none"}, overwrite |-> {FALSE},
               batch |-> 1, quota |-> 1000,
               paths |-> {<<>>}, extract |-> {FALSE}, background |-> {FALSE}])

NextVersions ==
    \/ \E p \in conf.workers : Upload(p)
    \/ \E p \in conf.workers : PickPath(p)
    \/ \E p \in conf.workers : Stage(p)
    \/ \E p \in conf.workers : Check(p)
    \/ \E p \in conf.workers : Promote(p)
    \/ \E p \in conf.workers : UploadFinish(p)
    \/ \E p \in conf.workers : CreateVersion(p)
    \/ \E p \in conf.workers : VersionFinish(p)

SpecVersions == InitVersions /\ [][NextVersions]_vars

----------------------------------------------------------------------------
(* Properties *)

AllIdle == \A p \in conf.workers : w[p].pc = "idle"

\* the committed rows of a user that are not deleted
StoredRows(uid) ==
    {i \in Committed : files[i].owner_id = uid /\ ~files[i].is_deleted}

RECURSIVE SumRowSizes(_)
SumRowSizes(S) ==
    IF S = {} THEN 0
    ELSE LET i == CHOOSE x \in S : TRUE
         IN files[i].size + SumRowSizes(S \ {i})

StoredBytes(uid) == SumRowSizes(StoredRows(uid))

\* C1: however the uploads of one owner interleave, in every reachable state
\* the sizes of the owner's non-deleted rows add up to at most the owner's
\* storage_quota.
C1_QuotaUnderConcurrentUploads ==
    \A u \in DOMAIN users : StoredBytes(u) <= users[u].storage_quota

\* C2: after any sequence of requests of one owner, run one after the other
\* (uploads, copies, archives), the sizes of the owner's non-deleted rows add
\* up to at most the owner's storage_quota.
C2_QuotaAfterEveryRequest ==
    AllIdle => \A u \in DOMAIN users :
                   SumRowSizes(StoredRows(u)) <= users[u].storage_quota

\* C5: in every interleaving of uploads, every row a listing can see has a
\* file at its physical_path, and that file is complete (not cut short).
C5_AtomicVisibility ==
    \A i \in Committed :
        /\ Exists(disk, files[i].physical_path)
        /\ ~disk[files[i].physical_path].trunc

\* the file at a row's physical_path has the length and digest the row gives
RowDescribesItsBytes(i) ==
    /\ Exists(disk, files[i].physical_path)
    /\ _calculate_file_hash(disk[files[i].physical_path]) = files[i].checksum
    /\ Size(disk[files[i].physical_path]) = files[i].size


\* the rows that held the bytes of an item before the upload that returned r
PriorRows(r, k) ==
    {i \in StoredRows(r.user) :
        /\ files[i].checksum = _calculate_file_hash(r.items[k].content)
        /\ i \notin {r.uploaded[j].id : j \in 1..Len(r.uploaded)}}

\* the items of the batch carry different bytes, none of them stored before
FreshItems(r) ==
    /\ \A k \in 1..Len(r.items) : PriorRows(r, k) = {}
    /\ \A j, k \in 1..Len(r.items) : j # k => r.items[j].content # r.items[k].content

\* C3: an upload whose items together exceed what is left of the quota raises
\* nothing; it returns a batch result in which the items that fit are uploaded
\* and an item that does not is listed as failed, so that with quota 1000,
\* nothing used and two items of 600 bytes, one is uploaded, one failed and
\* storage_used is 600 afterwards.
C3_PerItemQuotaOutcome ==
    \A p \in conf.workers :
        LET r == ret[p]
        IN (/\ r.op = "upload"
            /\ FreshItems(r)
            /\ r.used_before + BatchSize(r.items) > users[r.user].storage_quota)
           => /\ r.status = 200
              /\ Len(r.failed) >= 1
              /\ (r.used_before = 0 /\ Len(r.items) = 2
                  /\ \A k \in 1..2 : Size(r.items[k].content) = 600)
                 => (Len(r.uploaded) = 1 /\ users[r.user].storage_used = 600)

\* C4: an upload without overwrite of bytes the owner already has stored is
\* reported as skipped, with existing_file_id the id of a row that held those
\* bytes, whatever the name it is submitted under.
C4_DedupIdempotence ==
    \A p \in conf.workers :
        LET r == ret[p]
        IN (r.op = "upload" /\ ~r.overwrite)
           => \A k \in 1..Len(r.items) :
                  PriorRows(r, k) # {}
                  => /\ r.status = 200
                     /\ \E j \in 1..Len(r.skipped) :
                            /\ r.skipped[j].filename = r.items[k].filename
                            /\ r.skipped[j].existing_file_id \in PriorRows(r, k)

\* worker p's item ends in this step without being uploaded
ItemEndsNotUploaded(p) ==
    /\ w[p].pc \in {"stage", "check", "promote"}
    /\ \/ Len(w'[p].failed) > Len(w[p].failed)
       \/ Len(w'[p].skipped) > Len(w[p].skipped)
       \/ w[p].op = "version" /\ w'[p].pc = "idle"

\* C6: when the processing of an item ends with the item failed or skipped,
\* no file is left at the item's temp path.
C6_TempCleanup ==
    [][\A p \in conf.workers :
          ItemEndsNotUploaded(p) => ~Exists(disk', w[p].temp_path)]_vars

C6_Witness ==
    \E p \in conf.workers :
        ret[p].op = "upload" /\ ret[p].failed # <<>> /\ ret[p].skipped # <<>>

\* C7: for a file that started at version 1 and has had N versions created,
\* get_file_versions returns N+1 entries whose version numbers are, newest
\* first, N+1, N, ..., 1.
C7_VersionNumbering ==
    AllIdle =>
        \A f \in Committed :
            files[f].parent_file_id = NoFile
            => LET s == GetFileVersions(f)
               IN /\ Len(s) = files[f].version
                  /\ \A i \in 1..Len(s) : s[i].version = Len(s) + 1 - i

\* C8: restoring any version number from 1 to the current one of a file that
\* has versions succeeds, and afterwards the file's row gives the length and
\* digest of the bytes at its physical_path.
C8_RestoreAnyVersion ==
    \A p \in conf.workers :
        LET r == ret[p]
        IN (/\ r.op = "restore"
            /\ r.file_id \in Committed
            /\ files[r.file_id].parent_file_id = NoFile
            /\ files[r.file_id].version >= 2
            /\ r.version \in 1..files[r.file_id].version)
           => (r.status = 200 /\ RowDescribesItsBytes(r.file_id))

\* this step is a restore_file_version request of worker p
RestoreStep(p) ==
    clock' = clock + 1 /\ w' = w /\ ret'[p].op = "restore"

\* the ids and version numbers get_file_versions lists
VersionNumbers(file_id) ==
    LET s == GetFileVersions(file_id)
    IN [i \in 1..Len(s) |-> <<s[i].id, s[i].version>>]

\* C9: a restore that succeeds adds and removes no row, leaves the version,
\* parent_file_id and is_deleted of every row as they were, and so
\* get_file_versions lists the same ids with the same version numbers.
C9_RestoreKeepsLineage ==
    [][\A p \in conf.workers :
          (RestoreStep(p) /\ ret'[p].status = 200)
          => /\ Len(files') = Len(files)
             /\ \A i \in Ids :
                    /\ files'[i].id = files[i].id
                    /\ files'[i].version = files[i].version
                    /\ files'[i].parent_file_id = files[i].parent_file_id
                    /\ files'[i].is_deleted = files[i].is_deleted
             /\ \A f \in Ids : VersionNumbers(f)' = VersionNumbers(f)]_vars

C9_Witness ==
    \E p \in conf.workers : ret[p].op = "restore" /\ ret[p].status = 200

\* C10: a restore of a version whose file is not on disk, or of a version
\* number no row of the lineage has, is answered with an error (404) and
\* changes no row, no file and no user.
C10_RestoreMissingVersion ==
    [][\A p \in conf.workers :
          RestoreStep(p)
          => LET rows == {i \in Committed :
                             /\ files[i].parent_file_id = ret'[p].file_id
                             /\ files[i].version = ret'[p].version
                             /\ files[i].owner_id = ret'[p].user}
             IN (\A v \in rows : ~Exists(disk, files[v].physical_path))
                => /\ ret'[p].status = 404
                   /\ disk' = disk
                   /\ files' = files
                   /\ users' = users]_vars

C10_Witness ==
    \E p \in conf.workers :
        /\ ret[p].op = "restore"
        /\ ret[p].status = 404
        /\ ret[p].new_id # NoFile
        /\ ~Exists(disk, files[ret[p].new_id].physical_path)

\* this step is worker p taking on an upload_files_enhanced request
UploadBeginStep(p) == w[p].pc = "idle" /\ clock' > clock

\* the path that request names
RequestPath(p) == IF w'[p].pc = "pick" THEN w'[p].path ELSE ret'[p].path

\* the path has a ".." part, or leads out of the owner's directory
Traversal(uid, path) ==
    \/ \E i \in 1..Len(Split(path, "/")) : Split(path, "/")[i] = ParentPart
    \/ ~InsideUserDir(TargetDir(uid, path), uid)

\* C19: an upload whose path has a parent-directory part or leads out of the
\* owner's directory is refused with 400 or 403; it creates no directory and no
\* file, stages no item, adds no row and leaves storage_used as it was.
C19_TraversalRejected ==
    [][\A p \in conf.workers :
          (UploadBeginStep(p) /\ Traversal(U1, RequestPath(p)))
          => /\ w'[p].pc = "idle"
             /\ ret'[p].op = "upload"
             /\ ret'[p].status \in {400, 403}
             /\ disk' = disk
             /\ files' = files
             /\ users' = users]_vars

C19_Witness ==
    \E p \in conf.workers :
        /\ ret[p].op = "upload"
        /\ ret[p].status = 403
        /\ Traversal(U1, ret[p].path)

\* the largest size each service allows for a file of this name
MaxSizeFor(op, n) ==
    IF op = "upload_files"
    THEN LET t == _detect_file_type(Path(U1, n))
         IN IF t \in DOMAIN max_file_sizes THEN max_file_sizes[t] ELSE MAX_FILE_SIZE
    ELSE _get_file_type_and_config(n).type_config.max_size

\* C20: an item larger than its file type allows is refused: upload_files
\* answers 413 or 400, upload_files_enhanced lists the item as failed (or has
\* refused the batch), and nothing reported as uploaded is larger than its
\* type allows.
C20_SizeLimit ==
    \A p \in conf.workers :
        LET r == ret[p]
            over == {k \in 1..Len(r.items) :
                        Size(r.items[k].content) > MaxSizeFor(r.op, r.items[k].filename)}
        IN /\ (r.op = "upload_files" /\ over # {}) => r.status \in {400, 413}
           /\ (r.op = "upload" /\ over # {})
              => \/ r.status = 413
                 \/ \A k \in over : \E j \in 1..Len(r.failed) :
                        r.failed[j].filename = r.items[k].filename
           /\ r.op \in {"upload", "upload_files"}
              => \A j \in 1..Len(r.uploaded) :
                     r.uploaded[j].size <= MaxSizeFor(r.op, r.uploaded[j].name)

----------------------------------------------------------------------------
(* Archive containment *)

\* the step in which worker p stores an uploaded zip archive and extracts it
ExtractStep(p) ==
    /\ w[p].pc = "promote"
    /\ w[p].extract_archives
    /\ Len(w'[p].uploaded) = Len(w[p].uploaded) + 1
    /\ w[p].file_path.name.ext = "zip"
    /\ disk'[w[p].file_path].data = "zip"

\* the entry name has a ".." component
HasParentPart(member) ==
    \E i \in 1..Len(Split(member, "/")) : Split(member, "/")[i] = ParentPart

\* the entry name is absolute
IsAbsolute(member) == member # <<>> /\ Head(member) = "/"

\* the entry name is a relative path of ordinary components, with at most a
\* closing "/" for a directory
IsOrdinaryEntry(member) ==
    LET parts == Split(member, "/")
        body == IF EntryIsDir(member) THEN SubSeq(parts, 1, Len(parts) - 1) ELSE parts
    IN body # <<>> /\ \A i \in 1..Len(body) : IsKeptPart(body[i])

\* one component sequence begins the other
IsPrefix(a, b) == Len(a) <= Len(b) /\ SubSeq(b, 1, Len(a)) = a

\* no two entries of the archive lead to the same place or to a place below
\* the other
EntriesApart(members) ==
    \A m1, m2 \in members :
        m1 # m2 => ~IsPrefix(EntryParts(m1.name), EntryParts(m2.name))

\* the entry stands below extract_dir on disk d with its bytes
EntryExtracted(d, extract_dir, m) ==
    LET target == EntryTarget(extract_dir, m.name)
    IN /\ Exists(d, target)
       /\ IF EntryIsDir(m.name) THEN IsDir(d, target) ELSE d[target] = Bytes(m.data)

\* C11: when an uploaded zip archive of ordinary, separate entries is
\* extracted, every entry with a ".." component or an absolute name is passed
\* over, every other entry stands below the extraction directory afterwards,
\* and nothing outside the extraction directory is written.
C11_ArchiveContainment ==
    [][\A p \in conf.workers :
          ExtractStep(p) =>
              LET archive_path == w[p].file_path
                  extract_dir == ExtractDir(w[p].target_dir, archive_path)
                  members == disk'[archive_path].members
              IN (/\ EntriesApart(members)
                  /\ \A m \in members :
                        HasParentPart(m.name) \/ IsAbsolute(m.name) \/ IsOrdinaryEntry(m.name))
                 => /\ \A m \in members :
                          ~(HasParentPart(m.name) \/ IsAbsolute(m.name))
                              => EntryExtracted(disk', extract_dir, m)
                    /\ \A q \in DOMAIN disk' :
                          \/ q \in DOMAIN disk /\ disk'[q] = disk[q]
                          \/ q = archive_path
                          \/ q = extract_dir
                          \/ \E m \in members :
                                /\ ~(HasParentPart(m.name) \/ IsAbsolute(m.name))
                                /\ q \in {EntryTarget(extract_dir, m.name)}
                                          \cup EntryUpperDirs(extract_dir, m.name)]_vars

----------------------------------------------------------------------------
(* Batches with failing items *)

\* the step in which worker p's upload_files_enhanced call returns its result
UploadReturns(p) ==
    w[p].pc = "finish" /\ w[p].op = "upload" /\ ret'[p].status = 200

\* C12: when an upload call returns a batch result, every item of the batch is
\* listed as uploaded, skipped or failed, every failed item carries a reason,
\* and every item listed as uploaded has its committed row and its file on disk.
C12_FailureIsolation ==
    [][\A p \in conf.workers :
          UploadReturns(p) =>
              LET r == ret'[p]
              IN /\ Len(r.uploaded) + Len(r.skipped) + Len(r.failed) = Len(r.items)
                 /\ \A j \in 1..Len(r.failed) : r.failed[j].error # ""
                 /\ \A j \in 1..Len(r.uploaded) :
                       /\ r.uploaded[j].id \in Committed'
                       /\ Exists(disk', r.uploaded[j].physical_path)]_vars

\* the sizes the result lists for its uploaded items, added up
ReportedSize(r) == SumSeq([j \in 1..Len(r.uploaded) |-> r.uploaded[j].size])

\* C13: when an upload call that ran alone returns a batch result, the owner's
\* storage_used is its value at the start of the call plus the sizes of the
\* items listed as uploaded, and summary.total_size is that same sum.
C13_StorageCharged ==
    [][\A p \in conf.workers :
          UploadReturns(p) =>
              LET r == ret'[p]
              IN /\ r.used_before = users[r.user].storage_used
                 /\ users'[r.user].storage_used = r.used_before + ReportedSize(r)
                 /\ r.total_size = ReportedSize(r)]_vars

C13_Witness ==
    \E p \in conf.workers :
        /\ ret[p].op = "upload" /\ ret[p].status = 200
        /\ ret[p].used_before > 0
        /\ ret[p].uploaded # <<>>
        /\ ret[p].failed # <<>>
        /\ users[ret[p].user].storage_used = ret[p].used_before + ReportedSize(ret[p])

----------------------------------------------------------------------------
(* Names of stored files *)

\* worker p is processing an item of an upload without overwrite
PlainItemStep(p) ==
    w[p].op = "upload" /\ ~w[p].overwrite /\ w[p].pc \in {"pick", "stage", "check", "promote"}

\* the files on disk that rows of the table describe
StoredPaths ==
    {files[f].physical_path : f \in {g \in Ids : ~files[g].is_deleted}} \cap DOMAIN disk

\* C14: an item uploaded without overwrite is given its submitted name exactly
\* when no file of that name is in the target directory, and otherwise the name
\* with the smallest free counter k >= 1; it is stored under the name it was
\* given, and while it is processed the bytes of every stored file stay as they
\* were.
C14_NameCollision ==
    [][\A p \in conf.workers :
          PlainItemStep(p) =>
              LET n == CurItem(p).filename
                  p0 == PathIn(w[p].target_dir, n)
                  at(k) == PathIn(w[p].target_dir, Suffixed(n, k))
              IN /\ (w[p].pc = "pick" /\ w'[p].pc = "stage") =>
                        IF ~Exists(disk, p0) THEN w'[p].file_path = p0
                        ELSE \E k \in 1..(Cardinality(DOMAIN disk) + 1) :
                                /\ w'[p].file_path = at(k)
                                /\ ~Exists(disk, at(k))
                                /\ \A j \in 1..(k - 1) : Exists(disk, at(j))
                 /\ (w[p].pc = "promote" /\ Len(files') > Len(files)) =>
                        files'[Len(files')].physical_path = w[p].file_path
                 /\ \A q \in StoredPaths : Exists(disk', q) /\ disk'[q] = disk[q]]_vars

----------------------------------------------------------------------------
(* Failure to persist a row *)

\* the insert of the row of worker p's current item fails in this step, after
\* the temp file has been moved to the final path
FlushFails(p) ==
    /\ w[p].pc = "promote"
    /\ CurItem(p).fault = "flush"
    /\ Exists(disk, w[p].temp_path)

\* worker p's upload call ends in this step
UploadEnds(p) == w[p].pc = "finish" /\ w[p].op = "upload" /\ w'[p].pc = "idle"

\* C15: when the insert of an item's row fails after the item's file has been
\* moved to its final path, the file is removed and no row describes that path
\* for the item; and when the call ends, it returns a batch result that lists
\* the item as failed.
C15_CompensatingCleanup ==
    [][\A p \in conf.workers :
          /\ FlushFails(p) =>
                /\ ~Exists(disk', w[p].file_path)
                /\ \A f \in 1..Len(files') :
                      (files'[f].physical_path = w[p].file_path /\ ~files'[f].is_deleted)
                          => files'[f].session \notin {0, p}
          /\ UploadEnds(p) =>
                \A j \in 1..Len(w[p].failed) :
                    w[p].failed[j].error = "flush"
                        => /\ ret'[p].status = 200
                           /\ \E i \in 1..Len(ret'[p].failed) :
                                 ret'[p].failed[i] = w[p].failed[j]]_vars

----------------------------------------------------------------------------
(* Thumbnail tasks *)

----------------------------------------------------------------------------
(* Checksums of stored files *)

\* C17: between requests, when no upload has asked for overwrite, no two
\* non-deleted rows of one owner carry the same checksum.
C17_DigestUnique ==
    (AllIdle /\ conf.overwrite = {FALSE}) =>
        \A f, g \in Committed :
            (/\ f # g
             /\ ~files[f].is_deleted /\ ~files[g].is_deleted
             /\ files[f].owner_id = files[g].owner_id)
                => files[f].checksum # files[g].checksum

----------------------------------------------------------------------------
(* Overwriting uploads *)

\* worker p stores, in this step, an item of an upload with overwrite at a
\* path at which the owner already has a stored file
OverwriteStep(p) ==
    /\ w[p].pc = "promote"
    /\ w[p].op = "upload"
    /\ w[p].overwrite
    /\ Len(w'[p].uploaded) = Len(w[p].uploaded) + 1
    /\ \E f \in Visible(p) :
          /\ files[f].physical_path = w[p].file_path
          /\ files[f].owner_id = w[p].user
          /\ ~files[f].is_deleted

\* the non-deleted rows worker p sees for a path
RowsAt(fs, p, path) ==
    {f \in 1..Len(fs) : /\ fs[f].session \in {0, p}
                        /\ fs[f].physical_path = path
                        /\ ~fs[f].is_deleted}

\* C18: when an upload with overwrite stores an item under the name of a file
\* the owner already has, the bytes at the path are the new content, the row
\* that described the path is still the one row of that path, and its size and
\* checksum are those of the new bytes.
C18_OverwriteKeepsIdentity ==
    [][\A p \in conf.workers :
          OverwriteStep(p) =>
              LET path == w[p].file_path
              IN /\ disk'[path] = CurItem(p).content
                 /\ RowsAt(files', p, path) = RowsAt(files, p, path)
                 /\ \A f \in RowsAt(files', p, path) :
                       /\ files'[f].size = Size(disk'[path])
                       /\ files'[f].checksum = _calculate_file_hash(disk'[path])]_vars

----------------------------------------------------------------------------
(* Life of a stored file *)

\* the rows upload_files has returned and delete_file has not removed
ReturnedRows == {f \in Committed : ~files[f].is_deleted}

\* worker p's delete_file call on a file with a returned row happens in this step
DeleteStep(p) ==
    /\ w[p].pc = "idle"
    /\ ret'[p].op = "delete_file"
    /\ clock' = clock + 1
    /\ \E f \in ReturnedRows :
          files[f].physical_path = ret'[p].file_path /\ files[f].owner_id = ret'[p].user

\* C21: every file upload_files has returned and delete_file has not been
\* called on is listed by list_files and found by get_file, with its bytes on
\* disk; delete_file on such a file succeeds and removes the row and the bytes,
\* and get_file then reports the file as not found.
C21_UploadGetDelete ==
    [][/\ \A f \in ReturnedRows' :
             LET row == files'[f]
             IN /\ Exists(disk', row.physical_path)
                /\ row.physical_path \in ListedFiles(disk', Parent(row.physical_path))
                /\ \A p \in conf.workers :
                      get_file_status(files', disk', p, row.owner_id, row.physical_path) = 200
       /\ \A p \in conf.workers :
             DeleteStep(p) =>
                 /\ ret'[p].status = 200
                 /\ ~Exists(disk', ret'[p].file_path)
                 /\ ret'[p].file_id \notin ReturnedRows'
                 /\ get_file_status(files', disk', p, ret'[p].user, ret'[p].file_path) = 404]_vars

----------------------------------------------------------------------------
(* Rows of a new version *)

\* worker p's create_file_version call on a root row succeeds in this step
VersionStep(p) ==
    /\ w[p].pc = "finish"
    /\ w[p].op = "version"
    /\ ret'[p].status = 200
    /\ files[w[p].root].parent_file_id = NoFile

\* the rows the call of worker p has added to the table by the end of the step
AddedRows(p) ==
    {f \in 1..Len(files') : f > Len(files) \/ files[f].session = p}

\* C22: a create_file_version call on a root row of version v leaves the root
\* with version v+1 and adds exactly one row, which has the root as parent,
\* version v+1 and the caller as owner; the root's version is then the highest
\* version number among the rows of its lineage.
C22_VersionRow ==
    [][\A p \in conf.workers :
          VersionStep(p) =>
              LET root == w[p].root
                  v == files[root].version
              IN /\ files'[root].version = v + 1
                 /\ Cardinality(AddedRows(p)) = 1
                 /\ \A f \in AddedRows(p) :
                       /\ files'[f].parent_file_id = root
                       /\ files'[f].version = v + 1
                       /\ files'[f].owner_id = w[p].user
                 /\ \A f \in 1..Len(files') :
                       (f = root \/ files'[f].parent_file_id = root)
                           => files'[f].version <= files'[root].version]_vars

----------------------------------------------------------------------------
(* Outcome of a batch *)

\* the last upload_files_enhanced call of worker p was given a path inside the
\* owner's directory and has ended
UploadEnded(p) == ret[p].op = "upload" /\ ret[p].status \notin {0, 400, 403}

\* C23: an upload call on a valid path ends with a batch result in which the
\* uploaded, skipped and failed items together are as many as the items
\* submitted; a duplicate, a full quota or an oversized item is an outcome of
\* the item and never ends the call with an exception.
C23_PerItemOutcome ==
    \A p \in conf.workers :
        UploadEnded(p) =>
            /\ ret[p].status = 200
            /\ Len(ret[p].uploaded) + Len(ret[p].skipped) + Len(ret[p].failed)
                   = Len(ret[p].items)

----------------------------------------------------------------------------
(* Scope of the duplicate lookup *)

\* rows of owner uid that are not deleted and carry checksum h, as worker p sees them
OwnLiveRows(p, uid, h) ==
    {f \in Visible(p) : /\ files[f].owner_id = uid
                        /\ ~files[f].is_deleted
                        /\ files[f].checksum = h}

\* what belongs to the owners other than uid: their rows, files and usage
OthersState(fs, d, us, uid) ==
    [rows |-> {fs[f] : f \in {g \in 1..Len(fs) : fs[g].owner_id # uid}},
     disk |-> [q \in {x \in DOMAIN d : x.owner # uid} |-> d[q]],
     users |-> [u \in (DOMAIN us) \ {uid} |-> us[u]]]

\* C24: an item is skipped as a duplicate only when a non-deleted row of the
\* uploading owner carries its checksum; an item whose content matches only
\* rows of another owner, or rows of the owner marked deleted, is stored with a
\* row and a file of its own in the owner's directory; and no step of the
\* upload changes the rows, files or storage_used of another owner.
C24_DedupScope ==
    [][\A p \in conf.workers :
          (w[p].op = "upload" /\ ~w[p].overwrite /\ w[p].pc \in {"check", "promote", "finish"}) =>
              LET uid == w[p].user
                  h == _calculate_file_hash(CurItem(p).content)
              IN /\ (w[p].pc = "check" /\ Len(w'[p].skipped) > Len(w[p].skipped))
                        => OwnLiveRows(p, uid, h) # {}
                 /\ (w[p].pc = "check" /\ OwnLiveRows(p, uid, h) = {}
                                       /\ CurItem(p).fault = "none")
                        => w'[p].pc = "promote"
                 /\ (w[p].pc = "promote" /\ CurItem(p).fault = "none")
                        => /\ Len(files') = Len(files) + 1
                           /\ files'[Len(files')].owner_id = uid
                           /\ files'[Len(files')].physical_path.owner = uid
                           /\ files'[Len(files')].checksum = h
                           /\ Exists(disk', files'[Len(files')].physical_path)
                           /\ disk'[files'[Len(files')].physical_path] = CurItem(p).content
                 /\ OthersState(files', disk', users', uid) = OthersState(files, disk, users, uid)]_vars

C24_Witness ==
    \E p \in conf.workers :
        /\ ret[p].op = "upload" /\ ret[p].status = 200 /\ ret[p].user = U1
        /\ \E j \in 1..Len(ret[p].uploaded) :
              LET h == ret[p].uploaded[j].checksum
              IN /\ \E f \in Committed : files[f].owner_id = U2 /\ files[f].checksum = h
                                         /\ ~files[f].is_deleted /\ f < ret[p].uploaded[j].id
                 /\ \E f \in Committed : files[f].owner_id = U1 /\ files[f].checksum = h
                                         /\ files[f].is_deleted

----------------------------------------------------------------------------
(* Staging next to stored files *)

\* worker p is processing an item of a request that stages through a temp path
StagingStep(p) ==
    w[p].pc \in {"stage", "check", "promote", "file"} /\ w[p].op \in {"upload", "upload_files"}

\* the path the item's row names in the end, when the step is one of FileService
ItemPathV2(p) == PickFilePath(disk, w[p].target_dir, CurItem(p).filename, FALSE)

\* C25: while an item is staged and processed, every stored file other than
\* the one the item is stored as stays on disk with its bytes, and its row
\* stays as it was; in particular the temp path of the item is the path of no
\* stored file.
C25_StagingFrame ==
    [][\A p \in conf.workers :
          StagingStep(p) =>
              LET own == IF w[p].op = "upload" THEN w[p].file_path ELSE ItemPathV2(p)
                  temp == TempPathOf(own)
              IN /\ temp \notin StoredPaths \ {own}
                 /\ \A q \in StoredPaths \ {own} :
                       Exists(disk', q) /\ disk'[q] = disk[q]
                 /\ \A f \in Ids : files'[f] = files[f] \/ files[f].session # 0]_vars

----------------------------------------------------------------------------
(* Failure of an overwriting item *)

\* the item worker p processes with overwrite fails in this step, before its
\* temp file has been moved to the target path
FailsBeforePromotion(p) ==
    /\ w[p].pc \in {"stage", "check"}
    /\ w[p].overwrite
    /\ w[p].file_path # w[p].temp_path
    /\ \/ Len(w'[p].failed) > Len(w[p].failed)
       \/ w[p].op = "version" /\ w'[p].pc = "idle"

\* C26: when an item processed with overwrite fails before promotion, a file
\* that was at the item's target path before the step is still there after it,
\* with the same bytes.
C26_FailedItemKeepsFile ==
    [][\A p \in conf.workers :
          (FailsBeforePromotion(p) /\ Exists(disk, w[p].file_path)) =>
              /\ Exists(disk', w[p].file_path)
              /\ disk'[w[p].file_path] = disk[w[p].file_path]]_vars

----------------------------------------------------------------------------
(* Table, disk and accounting between requests *)

\* C27: between requests, every non-deleted row has a file at its
\* physical_path whose length and SHA-256 digest are the row's size and
\* checksum.
C27_LedgerMatchesDisk ==
    AllIdle => \A u \in DOMAIN users : \A i \in StoredRows(u) : RowDescribesItsBytes(i)

\* C28: between requests, the storage_used of every owner is the sum of the
\* sizes of the owner's non-deleted rows, and it is not negative.
C28_AccountingExact ==
    AllIdle => \A u \in DOMAIN users :
                   /\ users[u].storage_used = StoredBytes(u)
                   /\ users[u].storage_used >= 0

----------------------------------------------------------------------------
(* Version numbers under concurrent calls *)

\* the committed version rows of a root: one for each create_file_version call
\* on it that succeeded
VersionRowsOf(root) == {f \in Committed : files[f].parent_file_id = root}

\* C29: however create_file_version calls on one file interleave, no two
\* version rows of the file carry the same version number, and once every call
\* has ended the root's version is its first version, 1, plus the number of
\* calls that succeeded.
C29_ConcurrentVersions ==
    \A root \in Committed :
        files[root].parent_file_id = NoFile =>
            /\ \A f, g \in VersionRowsOf(root) :
                  f # g => files[f].version # files[g].version
            /\ AllIdle => files[root].version = 1 + Cardinality(VersionRowsOf(root))

----------------------------------------------------------------------------
(* Files without a row *)

\* the regular files in the directory of owner uid, generated thumbnails aside
RegularFiles(uid) ==
    {q \in DOMAIN disk : /\ q.owner = uid /\ q.up = 0
                         /\ ~IsDir(disk, q)
                         /\ \A k \in 1..Len(q.sub) : q.sub[k] # <<"thumbnails">>}

\* the paths the rows of owner uid name
RowPaths(uid) == {files[f].physical_path : f \in {g \in Committed : files[g].owner_id = uid}}

\* C30: when an upload call has returned and no other request is running,
\* every regular file in the owner's directory, files expanded from an archive
\* included, is the physical_path of a row of that owner.
C30_NoUntrackedBytes ==
    \A p \in conf.workers :
        (ret[p].op = "upload" /\ ret[p].status = 200 /\ AllIdle)
            => RegularFiles(ret[p].user) \subseteq RowPaths(ret[p].user)

====
